---- MODULE Spec2Model ----
(***************************************************************************)
(* A model of tlb/loader.go: the tag-driven codec LoadFromCell / ToCell    *)
(* with structLoad / structStore, over an abstract cell (bits, child       *)
(* references) and the cursor / builder primitives of package cell.        *)
(*                                                                         *)
(* Representation                                                          *)
(*   text        a sequence of one-character strings                       *)
(*   bit string  a sequence over {0,1}, most significant bit first         *)
(*   uint64      a bit string of length 64; int64 the same, two's          *)
(*               complement                                                *)
(*   pointer     <<>> is nil, <<x>> points to x                            *)
(*   *big.Int    pointer to [neg, mag], mag without leading zeros          *)
(*   []byte      a bit string whose length is a multiple of 8              *)
(*   cell, slice [bits, refs, trie]; trie is <<>> or <<dictionary>> for a  *)
(*               cell that is the root of a serialized dictionary          *)
(***************************************************************************)
EXTENDS Integers, Sequences, FiniteSets, TLC

(***************************************************************************)
(* Text: strings.TrimSpace, strings.Split, strings.HasPrefix, strconv.     *)
(***************************************************************************)
\* The text without its leading spaces.
TrimLeft(s) ==
  IF \A i \in 1..Len(s) : s[i] = " " THEN <<>>
  ELSE LET k == CHOOSE k \in 1..Len(s) :
                  s[k] # " " /\ \A j \in 1..(k - 1) : s[j] = " "
       IN  SubSeq(s, k, Len(s))

\* The text without its trailing spaces.
TrimRight(s) ==
  IF \A i \in 1..Len(s) : s[i] = " " THEN <<>>
  ELSE LET k == CHOOSE k \in 1..Len(s) :
                  s[k] # " " /\ \A j \in (k + 1)..Len(s) : s[j] = " "
       IN  SubSeq(s, 1, k)

TrimSpace(s) == TrimRight(TrimLeft(s))

\* The position of the j-th space of s; 0 before the first, Len(s) + 1
\* after the last.
SepAt(s, j) ==
  LET seps == {i \in 1..Len(s) : s[i] = " "} IN
  IF j = 0 THEN 0
  ELSE IF j > Cardinality(seps) THEN Len(s) + 1
  ELSE CHOOSE i \in seps : Cardinality({k \in seps : k < i}) = j - 1

\* strings.Split(s, " "): never empty, an empty text gives one empty token.
Split(s) ==
  [j \in 1..(Cardinality({i \in 1..Len(s) : s[i] = " "}) + 1) |->
     SubSeq(s, SepAt(s, j - 1) + 1, SepAt(s, j) - 1)]

HasPrefix(s, p) == Len(s) >= Len(p) /\ SubSeq(s, 1, Len(p)) = p

DecDigits == <<"0", "1", "2", "3", "4", "5", "6", "7", "8", "9">>

IsDecDigit(c) == \E d \in 1..10 : DecDigits[d] = c

DecVal(c) == (CHOOSE d \in 1..10 : DecDigits[d] = c) - 1

RECURSIVE DecFold(_, _)
DecFold(s, acc) ==
  IF s = <<>> THEN acc ELSE DecFold(Tail(s), 10 * acc + DecVal(s[1]))

\* strconv.ParseUint(s, 10, 64): digits only, no sign, not empty.  The
\* numerals of the model are short, so the 64-bit range error never arises.
ParseUint(s) ==
  IF s # <<>> /\ \A i \in 1..Len(s) : IsDecDigit(s[i])
  THEN [ok |-> TRUE, val |-> DecFold(s, 0)]
  ELSE [ok |-> FALSE, val |-> 0]

\* strconv.Atoi(s): as ParseUint with an optional sign.
Atoi(s) ==
  IF s # <<>> /\ s[1] \in {"+", "-"}
  THEN LET r == ParseUint(Tail(s))
       IN  [ok |-> r.ok, val |-> IF s[1] = "-" THEN 0 - r.val ELSE r.val]
  ELSE ParseUint(s)

HexDigits ==
  <<"0", "1", "2", "3", "4", "5", "6", "7", "8", "9",
    "a", "b", "c", "d", "e", "f">>

HexUpper == <<"A", "B", "C", "D", "E", "F">>

IsDigitOf(c, base) ==
  IF base = 2 THEN c \in {"0", "1"}
  ELSE (\E d \in 1..16 : HexDigits[d] = c) \/ (\E d \in 1..6 : HexUpper[d] = c)

HexVal(c) ==
  IF \E d \in 1..16 : HexDigits[d] = c
  THEN (CHOOSE d \in 1..16 : HexDigits[d] = c) - 1
  ELSE (CHOOSE d \in 1..6 : HexUpper[d] = c) + 9

(***************************************************************************)
(* Bit strings.                                                            *)
(***************************************************************************)
Zeros(n) == [i \in 1..n |-> 0]

Ones(n) == [i \in 1..n |-> 1]

\* Bit k (0 = least significant) of a natural below 2^31.
BitOf(n, k) == IF k >= 31 THEN 0 ELSE (n \div (2 ^ k)) % 2

NatBits(n, w) == [i \in 1..w |-> BitOf(n, w - i)]

\* b without its leading zeros.
Strip(b) ==
  IF \A i \in 1..Len(b) : b[i] = 0 THEN <<>>
  ELSE SubSeq(b, CHOOSE k \in 1..Len(b) :
                   b[k] = 1 /\ \A j \in 1..(k - 1) : b[j] = 0, Len(b))

\* The low n bits of b, zero-extended on the left when b is shorter.
Low(b, n) ==
  IF Len(b) >= n THEN SubSeq(b, Len(b) - n + 1, Len(b))
  ELSE Zeros(n - Len(b)) \o b

SignExtend(b, n) ==
  IF b = <<>> THEN Zeros(n)
  ELSE IF Len(b) >= n THEN SubSeq(b, Len(b) - n + 1, Len(b))
  ELSE [i \in 1..(n - Len(b)) |-> b[1]] \o b

Invert(b) == [i \in 1..Len(b) |-> 1 - b[i]]

\* b + 1 at the width of b: the last 0 becomes 1, the 1s after it 0.
Incr(b) ==
  IF \A i \in 1..Len(b) : b[i] = 1 THEN Zeros(Len(b))
  ELSE LET k == CHOOSE i \in 1..Len(b) :
                  b[i] = 0 /\ \A j \in (i + 1)..Len(b) : b[j] = 1
       IN  [i \in 1..Len(b) |-> IF i < k THEN b[i] ELSE IF i = k THEN 1 ELSE 0]

\* Two's complement negation at the width of b.
Negate(b) == Incr(Invert(b))

\* The bits of a text of binary or hexadecimal digits.
DigitBits(s, base) ==
  LET w == IF base = 2 THEN 1 ELSE 4 IN
  [i \in 1..(Len(s) * w) |->
     LET d == s[((i - 1) \div w) + 1]
         v == IF base = 2 THEN DecVal(d) ELSE HexVal(d)
     IN  NatBits(v, w)[((i - 1) % w) + 1]]

\* strconv.ParseInt(s, base, 64) for base 2 and 16: the result is an int64,
\* so a magnitude of 2^63 or more is a range error.  The literals of the
\* model carry no sign.
ParseInt(s, base) ==
  IF s = <<>> \/ \E i \in 1..Len(s) : ~IsDigitOf(s[i], base)
  THEN [ok |-> FALSE, val |-> Zeros(64)]
  ELSE LET mag == Strip(DigitBits(s, base))
       IN  IF Len(mag) > 63
           THEN [ok |-> FALSE, val |-> Zeros(64)]
           ELSE [ok |-> TRUE, val |-> Low(mag, 64)]

(***************************************************************************)
(* Package cell: cells, the read cursor (Slice) and the Builder.  Only the *)
(* contract the codec relies on is modelled: a read advances the cursor    *)
(* and fails when the cell holds too little; a write appends.              *)
(***************************************************************************)
MaxRefs == 4

Cell(bits, refs) == [bits |-> bits, refs |-> refs, trie |-> <<>>]

EmptyCell == Cell(<<>>, <<>>)

\* The root cell of a serialized dictionary (its internal layout is opaque).
TrieCell(d) == [bits |-> <<>>, refs |-> <<>>, trie |-> <<d>>]

Dictionary(keySz, entries) == [keySz |-> keySz, entries |-> entries]

\* (*Cell).BeginParse: a cursor at the start of the cell.
BeginParse(c) == c

\* (*Slice).ToCell: the rest of the cursor as a cell; the cursor stays.
SliceToCell(s) == s

\* (*Cell).ToBuilder, cell.BeginCell, (*Builder).EndCell.
BeginCell == EmptyCell

EndCell(b) == b

Skip(s, n) == [s EXCEPT !.bits = SubSeq(s.bits, n + 1, Len(s.bits))]

Got(val, s) == [ok |-> TRUE, val |-> val, s |-> s]

NotGot(s) == [ok |-> FALSE, val |-> <<>>, s |-> s]

LoadUInt(s, sz) ==
  IF Len(s.bits) < sz THEN NotGot(s)
  ELSE Got(Low(SubSeq(s.bits, 1, sz), 64), Skip(s, sz))

LoadInt(s, sz) ==
  IF Len(s.bits) < sz THEN NotGot(s)
  ELSE Got(SignExtend(SubSeq(s.bits, 1, sz), 64), Skip(s, sz))

BigOf(b) ==
  IF b # <<>> /\ b[1] = 1
  THEN [neg |-> TRUE, mag |-> Strip(Negate(b))]
  ELSE [neg |-> FALSE, mag |-> Strip(b)]

LoadBigInt(s, sz) ==
  IF Len(s.bits) < sz THEN NotGot(s)
  ELSE Got(<<BigOf(SubSeq(s.bits, 1, sz))>>, Skip(s, sz))

LoadBoolBit(s) ==
  IF Len(s.bits) < 1 THEN NotGot(s) ELSE Got(s.bits[1] = 1, Skip(s, 1))

\* LoadSlice(n): n bits as bytes, the last byte zero-padded.  A negative
\* count converted to uint exceeds every cell.
LoadSlice(s, n) ==
  IF n < 0 \/ Len(s.bits) < n THEN NotGot(s)
  ELSE Got(SubSeq(s.bits, 1, n) \o Zeros((8 - (n % 8)) % 8), Skip(s, n))

\* LoadAddr: tag 00 is the empty address (2 bits), tag 10 a standard one
\* (no anycast, 8-bit workchain, 256-bit hash); anything else is malformed.
LoadAddr(s) ==
  IF Len(s.bits) < 2 THEN NotGot(s)
  ELSE IF SubSeq(s.bits, 1, 2) = <<0, 0>>
  THEN Got(<<[none |-> TRUE, data |-> <<>>]>>, Skip(s, 2))
  ELSE IF SubSeq(s.bits, 1, 2) = <<1, 0>> /\ Len(s.bits) >= 267 /\ s.bits[3] = 0
  THEN Got(<<[none |-> FALSE, data |-> SubSeq(s.bits, 4, 267)]>>, Skip(s, 267))
  ELSE NotGot(s)

LoadRef(s) ==
  IF s.refs = <<>> THEN NotGot(s)
  ELSE Got(BeginParse(Head(s.refs)), [s EXCEPT !.refs = Tail(s.refs)])

\* LoadDict(sz): one presence bit, then the child cell holding the trie,
\* which must parse as a dictionary of sz-bit keys.
LoadDict(s, sz) ==
  IF Len(s.bits) < 1 THEN NotGot(s)
  ELSE IF s.bits[1] = 0 THEN Got(<<Dictionary(sz, <<>>)>>, Skip(s, 1))
  ELSE IF s.refs # <<>> /\ Head(s.refs).trie # <<>>
          /\ Head(s.refs).trie[1].keySz = sz
  THEN Got(Head(s.refs).trie, [Skip(s, 1) EXCEPT !.refs = Tail(s.refs)])
  ELSE NotGot(s)

\* (*Dictionary).All: the entries in the dictionary's enumeration order.
All(d) == d.entries

Put(b) == [res |-> "ok", b |-> b]

NotPut(b) == [res |-> "err", b |-> b]

Crash(b) == [res |-> "panic", b |-> b]

AppendBits(b, bits) == [b EXCEPT !.bits = b.bits \o bits]

StoreUInt(b, v, sz) ==
  IF Len(Strip(v)) > sz THEN NotPut(b) ELSE Put(AppendBits(b, Low(v, sz)))

StoreInt(b, v, sz) ==
  IF SignExtend(Low(v, sz), 64) # v THEN NotPut(b)
  ELSE Put(AppendBits(b, Low(v, sz)))

\* StoreBigInt dereferences its argument: a nil *big.Int panics.
StoreBigInt(b, p, sz) ==
  IF p = <<>> THEN Crash(b)
  ELSE IF Len(p[1].mag) > sz \/ (p[1].neg /\ sz = 0) THEN NotPut(b)
  ELSE IF p[1].neg THEN Put(AppendBits(b, Negate(Low(p[1].mag, sz))))
  ELSE Put(AppendBits(b, Low(p[1].mag, sz)))

StoreBoolBit(b, v) == Put(AppendBits(b, IF v THEN <<1>> ELSE <<0>>))

StoreSlice(b, bytes, n) ==
  IF n < 0 \/ Len(bytes) < n THEN NotPut(b)
  ELSE Put(AppendBits(b, SubSeq(bytes, 1, n)))

StoreAddr(b, p) ==
  IF p = <<>> \/ p[1].none THEN Put(AppendBits(b, <<0, 0>>))
  ELSE Put(AppendBits(b, <<1, 0, 0>> \o p[1].data))

StoreRef(b, p) ==
  IF p = <<>> \/ Len(b.refs) >= MaxRefs THEN NotPut(b)
  ELSE Put([b EXCEPT !.refs = Append(b.refs, p[1])])

\* StoreBuilder(c.ToBuilder()): c.ToBuilder() dereferences c.
StoreBuilder(b, p) ==
  IF p = <<>> THEN Crash(b)
  ELSE IF Len(b.refs) + Len(p[1].refs) > MaxRefs THEN NotPut(b)
  ELSE Put([b EXCEPT !.bits = b.bits \o p[1].bits,
                     !.refs = b.refs \o p[1].refs])

StoreDict(b, p) ==
  IF p = <<>> \/ p[1].entries = <<>> THEN Put(AppendBits(b, <<0>>))
  ELSE IF Len(b.refs) >= MaxRefs THEN NotPut(b)
  ELSE Put([b EXCEPT !.bits = b.bits \o <<1>>,
                     !.refs = Append(b.refs, TrieCell(p[1]))])

(***************************************************************************)
(* Record types (what reflection sees) and values.                         *)
(*   type   [name, fields, load, store]: load / store say whether the type *)
(*          declares LoadFromCell / ToCell and on which receiver ("none",  *)
(*          "value", "pointer")                                            *)
(*   field  [name, kind, elem, tag]: elem is <<>> or <<type>>, the struct  *)
(*          type of a "struct", "ptr", "slice" or "ptrslice" field         *)
(*   kinds  int uint bigint bool bytes addr cell dict struct ptr slice     *)
(*          ptrslice magic; int and uint stand for the 64-bit kinds        *)
(***************************************************************************)
Field(name, kind, elem, tag) ==
  [name |-> name, kind |-> kind, elem |-> elem, tag |-> tag]

Type(name, fields, load, store) ==
  [name |-> name, fields |-> fields, load |-> load, store |-> store]

IsPointerKind(kind) == kind \in {"bigint", "addr", "cell", "dict", "ptr"}

\* reflect.Type.Name(): the declared name; an unnamed pointer type has none.
TypeName(kind, elem) ==
  IF kind \in {"struct"} /\ elem # <<>> THEN elem[1].name ELSE ""

RECURSIVE Zero(_)
\* The zero value of a struct type, as reflect.New makes it.
Zero(typ) ==
  [i \in 1..Len(typ.fields) |->
     LET f == typ.fields[i]
     IN  IF f.kind \in {"int", "uint"} THEN Zeros(64)
         ELSE IF f.kind = "bool" THEN FALSE
         ELSE IF f.kind = "struct" /\ f.elem # <<>> THEN Zero(f.elem[1])
         ELSE <<>>]

(***************************************************************************)
(* Tag tokens.                                                             *)
(***************************************************************************)
TokDash == <<"-">>

TokMaybe == <<"m", "a", "y", "b", "e">>

TokEither == <<"e", "i", "t", "h", "e", "r">>

TokNum == <<"#", "#">>

TokAddr == <<"a", "d", "d", "r">>

TokBool == <<"b", "o", "o", "l">>

TokBits == <<"b", "i", "t", "s">>

TokRef == <<"^">>

TokDot == <<".">>

TokDict == <<"d", "i", "c", "t">>

TokArrow == <<"-", ">">>

TokArray == <<"a", "r", "r", "a", "y">>

(***************************************************************************)
(* Results.  A walk carries the record being filled, the cursor, and the   *)
(* log of the calls made on the cursor and on custom codecs; it ends "ok", *)
(* with an error (the chain of fmt.Errorf layers, outermost first) or      *)
(* with a panic.                                                           *)
(***************************************************************************)
Layer(msg, id) == [msg |-> msg, id |-> id]

\* The error a failed cursor or builder primitive returns.
PrimErr == <<Layer("cell", "")>>

\* fmt.Errorf(msg with id, ...: %w, err)
Wrap(msg, id, err) == <<Layer(msg, id)>> \o err

Call(op, sz, name) == [op |-> op, sz |-> sz, name |-> name]

Walk(rv, loader, calls) ==
  [res |-> "ok", rv |-> rv, loader |-> loader, calls |-> calls,
   err |-> <<>>, msg |-> "", at |-> 0]

Fail(p, err) == [p EXCEPT !.res = "error", !.err = err]

Panic(p, msg) == [p EXCEPT !.res = "panic", !.msg = msg]

Called(p, op, sz, name) == [p EXCEPT !.calls = Append(@, Call(op, sz, name))]

Read(p, r) == [p EXCEPT !.loader = r.s]

SetField(p, i, x) == [p EXCEPT !.rv[i] = x]

\* settings[k] with k beyond the slice: a Go runtime panic.
IndexPanic == "index out of range"

\* reflect panics: Set / Convert of a value the field's type does not take.
ReflectPanic == "reflect"

(***************************************************************************)
(* Custom codecs.  A type that declares LoadFromCell / ToCell brings its   *)
(* own code; the stand-in reads, or writes, a 4-bit marker and leaves the  *)
(* record's fields alone, which tells it from the generic walk.            *)
(***************************************************************************)
ManualMarker == <<1, 0, 1, 0>>

\* ld.LoadFromCell(loader) of a manualLoader.
ManualLoad(typ, loader) ==
  LET r == LoadUInt(loader, Len(ManualMarker))
      p == Called(Walk(Zero(typ), r.s, <<>>), "manualLoader", 0, typ.name)
  IN  IF r.ok THEN p ELSE Fail(p, Wrap("manual", "", PrimErr))

\* ld.ToCell() of a manualStore.
ManualStore(typ) == Cell(ManualMarker, <<>>)

(***************************************************************************)
(* LoadFromCell.                                                           *)
(***************************************************************************)
\* base and bit size of a magic literal (loader.go 188-197, 420-429).
MagicSize(tok) ==
  IF HasPrefix(tok, <<"#">>)
  THEN [ok |-> TRUE, base |-> 16, sz |-> (Len(tok) - 1) * 4]
  ELSE IF HasPrefix(tok, <<"$">>)
  THEN [ok |-> TRUE, base |-> 2, sz |-> Len(tok) - 1]
  ELSE [ok |-> FALSE, base |-> 0, sz |-> 0]

\* The kinds of the signed case of the switch on field.Type.Kind().
\* A variant that takes every integer kind for a signed one.
AnyIntegerKind(kind) == kind \in {"int", "uint"}

IsSignedKind(kind) == kind = "int"

\* field.Type == reflect.TypeOf(&big.Int{})
IsBigKind(kind) == kind = "bigint"

\* reflect.Value.Convert of a loaded integer to the field's type.
Convertible(kind) == kind \in {"int", "uint"}

\* A variant of the walk's end that passes over the field.
PassOver(p) == p

\* The final panic of the walk: no branch took the tag.
Unsupported(p) == Panic(p, "cannot deserialize field")

\* ## N
LoadNum(field, i, settings, p) ==
  IF Len(settings) < 2 THEN Panic(p, IndexPanic)
  ELSE
  LET n == ParseUint(settings[2]) IN
  IF ~n.ok THEN Panic(p, "corrupted num bits in ## tag")
  ELSE IF n.val <= 64 THEN
    IF IsSignedKind(field.kind) THEN
      LET r == LoadInt(p.loader, n.val)
          q == Called(p, "LoadInt", n.val, "")
      IN  IF ~r.ok THEN Fail(q, Wrap("failed to load int", "", PrimErr))
          ELSE SetField(Read(q, r), i, r.val)
    ELSE IF IsBigKind(field.kind) THEN
      LET r == LoadBigInt(p.loader, n.val)
          q == Called(p, "LoadBigInt", n.val, "")
      IN  IF ~r.ok THEN Fail(q, Wrap("failed to load bigint", "", PrimErr))
          ELSE SetField(Read(q, r), i, r.val)
    ELSE
      LET r == LoadUInt(p.loader, n.val)
          q == Called(p, "LoadUInt", n.val, "")
      IN  IF ~r.ok THEN Fail(q, Wrap("failed to load uint", "", PrimErr))
          ELSE IF ~Convertible(field.kind) THEN Panic(Read(q, r), ReflectPanic)
          ELSE SetField(Read(q, r), i, r.val)
  ELSE IF n.val <= 256 THEN
    LET r == LoadBigInt(p.loader, n.val)
        q == Called(p, "LoadBigInt", n.val, "")
    IN  IF ~r.ok THEN Fail(q, Wrap("failed to load bigint", "", PrimErr))
        ELSE IF ~IsBigKind(field.kind) THEN Panic(Read(q, r), ReflectPanic)
        ELSE SetField(Read(q, r), i, r.val)
  ELSE Unsupported(p)

\* addr
LoadAddress(field, i, p) ==
  LET r == LoadAddr(p.loader)
      q == Called(p, "LoadAddr", 0, "")
  IN  IF ~r.ok THEN Fail(q, Wrap("failed to load address", "", PrimErr))
      ELSE IF field.kind # "addr" THEN Panic(Read(q, r), ReflectPanic)
      ELSE SetField(Read(q, r), i, r.val)

\* bool
LoadBool(field, i, p) ==
  LET r == LoadBoolBit(p.loader)
      q == Called(p, "LoadBoolBit", 1, "")
  IN  IF ~r.ok THEN Fail(q, Wrap("failed to load bool", "", PrimErr))
      ELSE IF field.kind # "bool" THEN Panic(Read(q, r), ReflectPanic)
      ELSE SetField(Read(q, r), i, r.val)

\* bits N
LoadBitString(field, i, settings, p) ==
  IF Len(settings) < 2 THEN Panic(p, IndexPanic)
  ELSE
  LET n == Atoi(settings[2]) IN
  IF ~n.ok THEN Panic(p, "corrupted num bits in bits tag")
  ELSE
  LET r == LoadSlice(p.loader, n.val)
      q == Called(p, "LoadSlice", n.val, "")
  IN  IF ~r.ok THEN Fail(q, Wrap("failed to load uint", "", PrimErr))
      ELSE IF field.kind # "bytes" THEN Panic(Read(q, r), ReflectPanic)
      ELSE SetField(Read(q, r), i, r.val)

\* a magic literal on a Magic field
LoadMagic(typ, field, settings, p) ==
  LET m == MagicSize(settings[1]) IN
  IF ~m.ok THEN Panic(p, "unknown magic value type in tag")
  ELSE IF m.sz > 64 THEN Panic(p, "too big magic value type in tag")
  ELSE
  LET magic == ParseInt(Tail(settings[1]), m.base) IN
  IF ~magic.ok THEN Panic(p, "corrupted magic value in tag")
  ELSE
  LET r == LoadUInt(p.loader, m.sz)
      q == Called(p, "LoadUInt", m.sz, "")
  IN  IF ~r.ok THEN Fail(q, Wrap("failed to load magic", "", PrimErr))
      ELSE IF r.val # magic.val
      THEN Fail(Read(q, r), <<Layer("magic is not correct", typ.name)>>)
      ELSE Read(q, r)

RECURSIVE LoadFromCell(_, _, _)
RECURSIVE structLoad(_, _, _)
RECURSIVE TransformLoop(_, _, _, _, _, _)
RECURSIVE LoadLoop(_, _, _)

\* inf.(manualLoader) on reflect.New(newTyp): the method set of *T holds
\* the methods of both receivers.
ImplementsLoader(typ) == typ.load # "none"

\* structLoad(field.Type, loader): the value made, wrapped like a walk.
\* A type that is no struct type has no fields to walk: NumField panics
\* (a foreign struct type has untagged fields: the final panic).
structLoad(kind, elem, loader) ==
  IF kind \notin {"struct", "ptr"} \/ elem = <<>>
  THEN Panic(Walk(<<>>, loader, <<>>), ReflectPanic)
  ELSE
  LET newTyp == elem[1]
      name == TypeName(kind, elem)
      w == IF ImplementsLoader(newTyp)
           THEN ManualLoad(newTyp, loader)
           ELSE LoadFromCell(newTyp, <<Zero(newTyp)>>, loader)
  IN  IF w.res = "error"
      THEN [w EXCEPT !.err =
              Wrap(IF ImplementsLoader(newTyp)
                   THEN "failed to load from cell, using manual loader"
                   ELSE "failed to load from cell", name, w.err)]
      ELSE IF w.res = "panic" THEN w
      ELSE [w EXCEPT !.rv = IF kind = "ptr" THEN <<w.rv>> ELSE w.rv]

\* The nested call's outcome taken into the caller's walk.  The cursor is
\* the nested one only when both walk the same cell (".").
Nested(p, n, shared) ==
  [p EXCEPT !.res = n.res, !.err = n.err, !.msg = n.msg,
            !.calls = p.calls \o n.calls,
            !.loader = IF shared THEN n.loader ELSE p.loader]

\* ^ and .
LoadReference(field, i, settings, p) ==
  LET isRef == settings[1] = TokRef
      r == LoadRef(p.loader)
      q == IF isRef THEN Read(Called(p, "LoadRef", 0, ""), r) ELSE p
      next == IF isRef THEN r.val ELSE p.loader
  IN  IF isRef /\ ~r.ok
      THEN Fail(q, Wrap("failed to load ref", field.name, PrimErr))
      ELSE IF field.kind = "cell"
      THEN SetField(Called(q, "ToCell", 0, ""), i, <<SliceToCell(next)>>)
      ELSE LET n == structLoad(field.kind, field.elem, next)
               m == Nested(q, n, ~isRef)
           IN  IF n.res = "ok" THEN SetField(m, i, n.rv) ELSE m

\* field.Type.Elem() as structLoad sees it.
ElemKind(kind) == IF kind = "ptrslice" THEN "ptr" ELSE "struct"

\* reflect.Append(arr, nVal)
AppendElem(arr, nVal) == Append(arr, nVal)

\* dict N -> array [^]: the loop over dict.All().
TransformLoop(field, i, entries, isRef, arr, p) ==
  IF entries = <<>> THEN SetField(p, i, arr)
  ELSE IF field.kind \notin {"slice", "ptrslice", "ptr"}
  THEN Panic(p, ReflectPanic)
  ELSE
  LET ld == BeginParse(Head(entries).value)
      r == LoadRef(ld)
      q == IF isRef THEN Called(p, "LoadRef", 0, "") ELSE p
  IN  IF isRef /\ ~r.ok
      THEN Fail(q, Wrap("failed to load ref in dict transform", "", PrimErr))
      ELSE LET n == structLoad(ElemKind(field.kind), field.elem,
                               IF isRef THEN r.val ELSE ld)
               m == Nested(q, n, FALSE)
           IN  IF n.res = "error"
               THEN [m EXCEPT !.err =
                       Wrap("failed to load struct in dict transform", "", n.err)]
               ELSE IF n.res = "panic" THEN m
               ELSE IF field.kind = "ptr" THEN Panic(m, ReflectPanic)
               ELSE TransformLoop(field, i, Tail(entries), isRef,
                                  AppendElem(arr, n.rv), m)

\* dict N [-> array [^]]
LoadMapping(field, i, settings, p) ==
  IF Len(settings) < 2 THEN Panic(p, IndexPanic)
  ELSE
  LET sz == ParseUint(settings[2]) IN
  IF ~sz.ok THEN Panic(p, "cannot deserialize field as dict, bad size")
  ELSE
  LET r == LoadDict(p.loader, sz.val)
      q == Called(p, "LoadDict", sz.val, "")
  IN  IF ~r.ok THEN Fail(q, Wrap("failed to load ref", field.name, PrimErr))
      ELSE IF Len(settings) >= 4 /\ settings[3] = TokArrow
      THEN IF settings[4] = TokArray
           THEN TransformLoop(field, i, All(r.val[1]),
                              Len(settings) >= 5 /\ settings[5] = TokRef,
                              p.rv[i], Read(q, r))
           ELSE Panic(Read(q, r), "transformation to this type is not supported")
      ELSE IF field.kind # "dict" THEN Panic(Read(q, r), ReflectPanic)
      ELSE SetField(Read(q, r), i, r.val)

\* The if / else-if chain over settings[0] (loader.go 87-269).
LoadDirective(typ, field, i, settings, p) ==
  IF settings = <<>> THEN Panic(p, IndexPanic)
  ELSE IF settings[1] = TokNum THEN LoadNum(field, i, settings, p)
  ELSE IF settings[1] = TokAddr THEN LoadAddress(field, i, p)
  ELSE IF settings[1] = TokBool THEN LoadBool(field, i, p)
  ELSE IF settings[1] = TokBits THEN LoadBitString(field, i, settings, p)
  ELSE IF settings[1] = TokRef \/ settings[1] = TokDot
  THEN LoadReference(field, i, settings, p)
  ELSE IF field.kind = "magic" THEN LoadMagic(typ, field, settings, p)
  ELSE IF settings[1] = TokDict THEN LoadMapping(field, i, settings, p)
  ELSE Unsupported(p)

\* either X Y (loader.go 70-84)
LoadEither(typ, field, i, settings, p) ==
  IF settings = <<>> THEN Panic(p, IndexPanic)
  ELSE IF settings[1] # TokEither THEN LoadDirective(typ, field, i, settings, p)
  ELSE IF Len(settings) < 3 THEN Panic(p, "either tag should have 2 args")
  ELSE
  LET r == LoadBoolBit(p.loader)
      q == Called(p, "LoadBoolBit", 1, "either")
  IN  IF ~r.ok THEN Fail(q, Wrap("failed to load maybe", field.name, PrimErr))
      ELSE LoadDirective(typ, field, i,
                         IF ~r.val THEN <<settings[2]>> ELSE <<settings[3]>>,
                         Read(q, r))

\* One iteration of the loop over the fields (loader.go 46-270).
LoadField(typ, i, p) ==
  LET field == typ.fields[i]
      tag == TrimSpace(field.tag)
      settings == Split(tag)
  IN  IF tag = TokDash THEN p
      ELSE IF settings[1] = TokMaybe
      THEN LET r == LoadBoolBit(p.loader)
               q == Called(p, "LoadBoolBit", 1, "maybe")
           IN  IF ~r.ok
               THEN Fail(q, Wrap("failed to load maybe", field.name, PrimErr))
               ELSE IF ~r.val THEN Read(q, r)
               ELSE LoadEither(typ, field, i, Tail(settings), Read(q, r))
      ELSE LoadEither(typ, field, i, settings, p)

LoadLoop(typ, i, p) ==
  IF i > Len(typ.fields) THEN p
  ELSE LET q == LoadField(typ, i, p)
       IN  IF q.res = "ok" THEN LoadLoop(typ, i + 1, q) ELSE [q EXCEPT !.at = i]

\* LoadFromCell(v, loader): v is <<>> (nil) or <<record>>.
LoadFromCell(typ, v, loader) ==
  IF v = <<>>
  THEN Fail(Walk(<<>>, loader, <<>>), <<Layer("v should be a pointer and not nil", "")>>)
  ELSE LoadLoop(typ, 1, Called(Walk(v[1], loader, <<>>), "walk", 0, typ.name))

(***************************************************************************)
(* ToCell.                                                                 *)
(***************************************************************************)
Build(rv, b, calls) ==
  [res |-> "ok", rv |-> rv, b |-> b, calls |-> calls,
   err |-> <<>>, msg |-> "", at |-> 0]

\* The outcome of a builder primitive taken into the walk.
Stored(p, r, msg, id) ==
  IF r.res = "ok" THEN [p EXCEPT !.b = r.b]
  ELSE IF r.res = "err" THEN Fail(p, Wrap(msg, id, PrimErr))
  ELSE Panic(p, "nil pointer dereference")

\* The final panic of the walk: no branch took the tag.
Unserializable(p) == Panic(p, "cannot serialize field")

\* A variant that never takes the value for absent.
NeverAbsent(field, val) == FALSE

\* field.Type.Kind() == reflect.Pointer && fieldVal.IsNil()
MaybeAbsent(field, val) == IsPointerKind(field.kind) /\ val = <<>>

\* A variant that looks at the first alternative.
EitherFirst(settings) == HasPrefix(settings[2], <<"^">>)

\* second := strings.HasPrefix(settings[2], "^")
EitherSecond(settings) == HasPrefix(settings[3], <<"^">>)

\* ## N
StoreNum(field, val, settings, p) ==
  IF Len(settings) < 2 THEN Panic(p, IndexPanic)
  ELSE
  LET n == ParseUint(settings[2]) IN
  IF ~n.ok THEN Panic(p, "corrupted num bits in ## tag")
  ELSE IF n.val <= 64 THEN
    IF IsSignedKind(field.kind)
    THEN Stored(Called(p, "StoreInt", n.val, ""),
                StoreInt(p.b, val, n.val), "failed to store int", "")
    ELSE IF IsBigKind(field.kind)
    THEN Stored(Called(p, "StoreBigInt", n.val, ""),
                StoreBigInt(p.b, val, n.val), "failed to store bigint", "")
    ELSE IF field.kind # "uint" THEN Panic(p, ReflectPanic)
    ELSE Stored(Called(p, "StoreUInt", n.val, ""),
                StoreUInt(p.b, val, n.val), "failed to store uint", "")
  ELSE IF n.val <= 256 THEN
    IF ~IsBigKind(field.kind) THEN Panic(p, ReflectPanic)
    ELSE Stored(Called(p, "StoreBigInt", n.val, ""),
                StoreBigInt(p.b, val, n.val), "failed to store bigint", "")
  ELSE Unserializable(p)

\* addr
StoreAddress(field, val, p) ==
  IF field.kind # "addr" THEN Panic(p, ReflectPanic)
  ELSE Stored(Called(p, "StoreAddr", 0, ""),
              StoreAddr(p.b, val), "failed to store address", "")

\* bool
StoreBool(field, val, p) ==
  IF field.kind # "bool" THEN Panic(p, ReflectPanic)
  ELSE Stored(Called(p, "StoreBoolBit", 1, ""),
              StoreBoolBit(p.b, val), "failed to store bool", "")

\* bits N
StoreBitString(field, val, settings, p) ==
  IF Len(settings) < 2 THEN Panic(p, IndexPanic)
  ELSE
  LET n == Atoi(settings[2]) IN
  IF ~n.ok THEN Panic(p, "corrupted num bits in bits tag")
  ELSE IF field.kind # "bytes" THEN Panic(p, ReflectPanic)
  ELSE Stored(Called(p, "StoreSlice", n.val, ""),
              StoreSlice(p.b, val, n.val), "failed to store bits", "")

\* a magic literal on a Magic field
StoreMagic(settings, p) ==
  LET m == MagicSize(settings[1]) IN
  IF ~m.ok THEN Panic(p, "unknown magic value type in tag")
  ELSE IF m.sz > 64 THEN Panic(p, "too big magic value type in tag")
  ELSE
  LET magic == ParseInt(Tail(settings[1]), m.base) IN
  IF ~magic.ok THEN Panic(p, "corrupted magic value in tag")
  ELSE Stored(Called(p, "StoreUInt", m.sz, ""),
              StoreUInt(p.b, magic.val, m.sz), "failed to store magic", "")

\* dict: the tag's arguments are not read.
StoreMapping(field, val, p) ==
  IF field.kind # "dict" THEN Panic(p, ReflectPanic)
  ELSE Stored(Called(p, "StoreDict", 0, ""),
              StoreDict(p.b, val), "failed to store dict", field.name)

RECURSIVE ToCell(_, _, _)
RECURSIVE structStore(_, _)
RECURSIVE StoreLoop(_, _, _)

\* inf.(manualStore) on the field's own value: a T holds only the methods
\* declared on T, a *T those of both receivers.
ImplementsStore(kind, typ) ==
  IF kind = "ptr" THEN typ.store # "none" ELSE typ.store = "value"

\* structStore(fieldVal, field.Type.Name()): the cell made, in .b.
structStore(field, val) ==
  LET name == TypeName(field.kind, field.elem) IN
  IF field.kind \notin {"struct", "ptr"} \/ field.elem = <<>>
  THEN IF IsPointerKind(field.kind) /\ val = <<>>
       THEN Fail(Build(val, EmptyCell, <<>>),
                 Wrap("failed to store to cell", name,
                      <<Layer("v should not be nil", "")>>))
       ELSE Panic(Build(val, EmptyCell, <<>>), ReflectPanic)
  ELSE
  LET typ == field.elem[1] IN
  IF ImplementsStore(field.kind, typ)
  THEN IF field.kind = "ptr" /\ val = <<>> /\ typ.store = "value"
       THEN Panic(Build(val, EmptyCell, <<>>), "nil pointer dereference")
       ELSE Called(Build(val, ManualStore(typ), <<>>), "manualStore", 0, typ.name)
  ELSE LET w == ToCell(typ, val, field.kind = "ptr")
       IN  IF w.res = "error"
           THEN [w EXCEPT !.err = Wrap("failed to store to cell", name, w.err)]
           ELSE w

\* ^ and .
StoreReference(field, val, settings, p) ==
  LET n == IF field.kind = "cell"
           THEN Build(val, EmptyCell, <<>>)
           ELSE structStore(field, val)
      c == IF field.kind = "cell" THEN val ELSE <<n.b>>
      m == [p EXCEPT !.res = n.res, !.err = n.err, !.msg = n.msg,
                     !.calls = p.calls \o n.calls]
  IN  IF n.res # "ok" THEN m
      ELSE IF settings[1] = TokRef
      THEN Stored(Called(m, "StoreRef", 0, ""), StoreRef(m.b, c),
                  "failed to store cell to ref", field.name)
      ELSE Stored(Called(m, "StoreBuilder", 0, ""), StoreBuilder(m.b, c),
                  "failed to store cell to builder", field.name)

\* The if / else-if chain over settings[0] (loader.go 331-453).
StoreDirective(field, val, settings, p) ==
  IF settings = <<>> THEN Panic(p, IndexPanic)
  ELSE IF settings[1] = TokNum THEN StoreNum(field, val, settings, p)
  ELSE IF settings[1] = TokAddr THEN StoreAddress(field, val, p)
  ELSE IF settings[1] = TokBool THEN StoreBool(field, val, p)
  ELSE IF settings[1] = TokBits THEN StoreBitString(field, val, settings, p)
  ELSE IF settings[1] = TokRef \/ settings[1] = TokDot
  THEN StoreReference(field, val, settings, p)
  ELSE IF field.kind = "magic" THEN StoreMagic(settings, p)
  ELSE IF settings[1] = TokDict THEN StoreMapping(field, val, p)
  ELSE Unserializable(p)

\* either X Y (loader.go 313-329)
StoreEither(field, val, settings, p) ==
  IF settings = <<>> THEN Panic(p, IndexPanic)
  ELSE IF settings[1] # TokEither THEN StoreDirective(field, val, settings, p)
  ELSE IF Len(settings) < 3 THEN Panic(p, "either tag should have 2 args")
  ELSE
  LET second == EitherSecond(settings)
      q == Stored(Called(p, "StoreBoolBit", 1, "either"),
                  StoreBoolBit(p.b, second), "cannot store maybe bit", "")
  IN  IF q.res # "ok" THEN q
      ELSE StoreDirective(field, val,
                          IF second THEN <<settings[3]>> ELSE <<settings[2]>>, q)

\* One iteration of the loop over the fields (loader.go 286-454).
StoreField(typ, i, p) ==
  LET field == typ.fields[i]
      val == p.rv[i]
      tag == TrimSpace(field.tag)
      settings == Split(tag)
  IN  IF tag = TokDash THEN p
      ELSE IF settings[1] = TokMaybe
      THEN LET absent == MaybeAbsent(field, val)
               q == Stored(Called(p, "StoreBoolBit", 1, "maybe"),
                           StoreBoolBit(p.b, ~absent), "cannot store maybe bit", "")
           IN  IF absent \/ q.res # "ok" THEN q
               ELSE StoreEither(field, val, Tail(settings), q)
      ELSE StoreEither(field, val, settings, p)

StoreLoop(typ, i, p) ==
  IF i > Len(typ.fields) THEN p
  ELSE LET q == StoreField(typ, i, p)
       IN  IF q.res = "ok" THEN StoreLoop(typ, i + 1, q) ELSE [q EXCEPT !.at = i]

\* ToCell(v): v is a record, or with isPtr <<>> (nil) or <<record>>.  The
\* cell is EndCell of .b when the walk ends "ok".
ToCell(typ, v, isPtr) ==
  IF isPtr /\ v = <<>>
  THEN Fail(Build(v, BeginCell, <<>>), <<Layer("v should not be nil", "")>>)
  ELSE StoreLoop(typ, 1,
                 Called(Build(IF isPtr THEN v[1] ELSE v, BeginCell, <<>>),
                        "walk", 0, typ.name))

(***************************************************************************)
(* The schemas, records and cells the codec is run on.                     *)
(***************************************************************************)
\* The largest number of entries of a mapping, and of elements of a slice.
MaxEntries == 2

\* The largest number of bits of the plain cells given to LoadFromCell.
MaxRawBits == 9

RECURSIVE Dec(_)
Dec(n) ==
  IF n < 10 THEN <<DecDigits[n + 1]>>
  ELSE Dec(n \div 10) \o <<DecDigits[(n % 10) + 1]>>

RECURSIVE Tag(_)
\* The tag text of a token list.
Tag(tokens) ==
  IF tokens = <<>> THEN <<>>
  ELSE IF Len(tokens) = 1 THEN tokens[1]
  ELSE tokens[1] \o <<" ">> \o Tag(Tail(tokens))

Receivers == {"none", "value", "pointer"}

Widths == {0, 1, 8, 32, 64, 65, 256, 257}

One(name, kind, elem, tokens) ==
  Type(name, <<Field("Value", kind, elem, Tag(tokens))>>, "none", "none")

InnerT(load, store) ==
  Type("InnerT", <<Field("A", "uint", <<>>, Tag(<<TokNum, Dec(8)>>))>>, load, store)

Plain == InnerT("none", "none")

NumTypes ==
  {One("NumT", k, <<>>, <<TokNum, Dec(n)>>) :
     k \in {"int", "uint", "bigint", "bool"}, n \in Widths}

LitDeadbeef == <<"#", "d", "e", "a", "d", "b", "e", "e", "f">>

LitOther == <<"#", "1", "2", "3", "4", "5", "6", "7", "8">>

LitBin == <<"$", "1", "1", "0", "1">>

LitHex(d, n) == <<"#", d>> \o [i \in 1..(n - 1) |-> "0"]

Literals ==
  {LitDeadbeef, LitOther, LitBin, <<"#", "A", "b">>,
   LitHex("7", 16), LitHex("8", 16), LitHex("f", 16), LitHex("1", 17),
   <<"$">> \o [i \in 1..64 |-> "1"], <<"$">> \o [i \in 1..63 |-> "1"]}

MagicT(lit) ==
  Type("TaggedT",
       <<Field("M", "magic", <<>>, lit),
         Field("Value", "uint", <<>>, Tag(<<TokNum, Dec(32)>>))>>,
       "none", "none")

MagicTypes == {MagicT(lit) : lit \in Literals}

MaybeTypes ==
  {One("MaybeT", "bigint", <<>>, <<TokMaybe, TokNum, Dec(8)>>),
   One("MaybeT", "uint", <<>>, <<TokMaybe, TokNum, Dec(8)>>),
   One("MaybeT", "ptr", <<Plain>>, <<TokMaybe, TokRef>>),
   One("MaybeT", "ptr", <<Plain>>, <<TokMaybe, TokDot>>),
   One("MaybeT", "cell", <<>>, <<TokMaybe, TokRef>>),
   One("MaybeT", "addr", <<>>, <<TokMaybe, TokAddr>>),
   One("MaybeT", "dict", <<>>, <<TokMaybe, TokDict, Dec(8)>>),
   Type("MaybeT",
        <<Field("Opt", "bigint", <<>>, Tag(<<TokMaybe, TokNum, Dec(8)>>)),
          Field("Flag", "bool", <<>>, TokBool)>>, "none", "none")}

DictTypes ==
  {One("DictT", "dict", <<>>, <<TokDict, Dec(8)>>),
   One("DictT", "dict", <<>>, <<TokDict, Dec(16)>>)}
  \cup
  {One("DictT", k, <<InnerT(l, "none")>>, <<TokDict, Dec(8), TokArrow, TokArray>> \o r) :
     k \in {"slice", "ptrslice"}, l \in {"none", "pointer"}, r \in {<<>>, <<TokRef>>}}

NestedTypes ==
  {One("OuterT", k, <<InnerT(l, s)>>, <<t>>) :
     k \in {"struct", "ptr"}, l \in Receivers, s \in Receivers,
     t \in {TokRef, TokDot}}

MidT ==
  Type("MidT", <<Field("In", "struct", <<Plain>>, TokDot)>>, "none", "none")

DeepTypes ==
  {One("TopT", "struct", <<MidT>>, <<TokRef>>),
   One("TopT", "ptr", <<MidT>>, <<TokDot>>)}

LeafTypes ==
  {One("LeafT", "bytes", <<>>, <<TokBits, Dec(8)>>),
   One("LeafT", "bytes", <<>>, <<TokBits, Dec(12)>>),
   One("LeafT", "bool", <<>>, <<TokBool>>),
   One("LeafT", "addr", <<>>, <<TokAddr>>),
   One("LeafT", "cell", <<>>, <<TokRef>>),
   One("LeafT", "uint", <<>>, <<TokDash>>)}

EitherTypes ==
  {One("EitherT", k, <<Plain>>, <<TokEither, a, b>>) :
     k \in {"struct", "ptr"}, a \in {TokRef, TokDot}, b \in {TokRef, TokDot}}
  \cup
  {One("EitherT", "bool", <<>>, <<TokEither, TokBool, TokBool>>),
   One("EitherT", "uint", <<>>, <<TokEither, TokNum, Dec(8), TokRef>>),
   One("EitherT", "uint", <<>>, <<TokEither, TokNum, Dec(8), TokNum, Dec(8)>>),
   One("EitherT", "bytes", <<>>, <<TokEither, TokRef, TokBits, Dec(8)>>),
   One("EitherT", "ptr", <<Plain>>, <<TokMaybe, TokEither, TokDot, TokRef>>),
   One("EitherT", "magic", <<>>, <<TokEither, LitBin, <<"$", "0", "1">> >>)}

TokFoo == <<"f", "o", "o">>

BadTags ==
  {<<TokFoo>>, <<>>, <<TokNum, <<"x">> >>, <<TokNum>>, <<TokNum, Dec(300)>>,
   <<TokBits, <<"x">> >>, <<TokBits>>, <<TokEither, TokRef>>, <<TokEither>>,
   <<TokDict>>, <<TokDict, <<"x">> >>,
   <<TokDict, Dec(8), TokArrow, <<"m", "a", "p">> >>, <<TokMaybe>>,
   <<TokEither, TokFoo, TokRef>>, <<TokEither, TokDot, TokFoo>>}

RECURSIVE BadKind(_)
BadKind(tokens) ==
  IF tokens = <<>> THEN "uint"
  ELSE IF tokens[1] = TokDict THEN "dict"
  ELSE IF tokens[1] = TokBits THEN "bytes"
  ELSE IF tokens[1] = TokEither THEN "ptr"
  ELSE IF tokens[1] # TokMaybe THEN "uint"
  ELSE IF BadKind(Tail(tokens)) = "dict" THEN "dict" ELSE "ptr"

BadField(tokens) ==
  Field("Bad", BadKind(tokens), <<Plain>>, Tag(tokens))

BadTypes ==
  {Type("BadT", <<BadField(t)>>, "none", "none") : t \in BadTags}
  \cup
  {Type("BadT", <<Field("Flag", "bool", <<>>, TokBool), BadField(t)>>,
        "none", "none") : t \in BadTags}
  \cup
  {Type("BadT", <<Field("Count", "uint", <<>>, Tag(<<TokNum, Dec(1)>>)),
                  BadField(t)>>, "none", "none") :
     t \in {<<TokFoo>>, <<TokNum, Dec(300)>>}}
  \cup
  {Type("BadT", <<BadField(<<TokMaybe>> \o t)>>, "none", "none") :
     t \in {<<TokFoo>>, <<TokNum, Dec(300)>>, <<TokDict, <<"x">> >>}}

Types ==
  NumTypes \cup MagicTypes \cup MaybeTypes \cup DictTypes \cup NestedTypes
  \cup DeepTypes \cup LeafTypes \cup EitherTypes \cup BadTypes

Big(neg, mag) == [neg |-> neg, mag |-> mag]

\* A mapping of k entries; each value cell holds an InnerT both in its own
\* bits and in its first child, so that both transforms can decode it.
Entries(k) ==
  [j \in 1..k |->
     [key |-> NatBits(j, 8),
      value |-> Cell(NatBits(10 + j, 8), <<Cell(NatBits(20 + j, 8), <<>>)>>)]]

\* As Entries(k), the last value cell being too short to decode.
ShortEntries(k) ==
  [j \in 1..k |->
     IF j = k THEN [key |-> NatBits(j, 8), value |-> Cell(<<1>>, <<>>)]
     ELSE Entries(k)[j]]

RECURSIVE Prod(_)
Prod(sets) ==
  IF sets = <<>> THEN {<<>>}
  ELSE {<<x>> \o rest : x \in Head(sets), rest \in Prod(Tail(sets))}

RECURSIVE ValuesOf(_)
RECURSIVE FieldValues(_)
FieldValues(f) ==
  CASE f.kind = "uint" -> {NatBits(0, 64), NatBits(1, 64), NatBits(42, 64)}
    [] f.kind = "int" -> {NatBits(0, 64), NatBits(1, 64), Ones(64)}
    [] f.kind = "bigint" ->
         {<<>>, <<Big(FALSE, <<>>)>>, <<Big(FALSE, <<1>>)>>, <<Big(TRUE, <<1>>)>>,
          <<Big(FALSE, <<1>> \o Zeros(100))>>}
    [] f.kind = "bool" -> {TRUE, FALSE}
    [] f.kind = "bytes" ->
         {<<>>, NatBits(165, 8), NatBits(165, 8) \o NatBits(240, 8)}
    [] f.kind = "addr" ->
         {<<>>, <<[none |-> TRUE, data |-> <<>>]>>,
          <<[none |-> FALSE, data |-> NatBits(7, 264)]>>}
    [] f.kind = "cell" ->
         {<<>>, <<EmptyCell>>, <<Cell(<<1, 0, 1>>, <<EmptyCell>>)>>}
    [] f.kind = "dict" ->
         {<<>>} \cup {<<Dictionary(8, Entries(k))>> : k \in 0..MaxEntries}
    [] f.kind = "struct" -> ValuesOf(f.elem[1])
    [] f.kind = "ptr" -> {<<>>} \cup {<<v>> : v \in ValuesOf(f.elem[1])}
    [] f.kind = "slice" ->
         {[j \in 1..k |-> Zero(f.elem[1])] : k \in 0..MaxEntries}
    [] f.kind = "ptrslice" ->
         {[j \in 1..k |-> <<Zero(f.elem[1])>>] : k \in 0..MaxEntries}
    [] OTHER -> {<<>>}

\* The records of a struct type the codec is run on.
ValuesOf(typ) ==
  Prod([i \in 1..Len(typ.fields) |-> FieldValues(typ.fields[i])])

DictCell(entries) ==
  [bits |-> <<1>>, refs |-> <<TrieCell(Dictionary(8, entries))>>, trie |-> <<>>]

\* The cells given to LoadFromCell that ToCell did not make.
RawCells ==
  {Cell(b, r) : b \in {Zeros(0), Zeros(1), Ones(1), Zeros(MaxRawBits),
                       Ones(MaxRawBits)},
                r \in {<<>>, <<Cell(Ones(MaxRawBits), <<>>)>>}}
  \cup {DictCell(Entries(k)) : k \in 1..MaxEntries}
  \cup {DictCell(ShortEntries(k)) : k \in 1..MaxEntries}
  \cup {Cell(Low(DigitBits(Tail(LitDeadbeef), 16), 32) \o NatBits(42, 32), <<>>),
        Cell(<<0>> \o Ones(299), <<>>), Cell(Ones(300), <<>>)}

(***************************************************************************)
(* The state machine: a caller holding a record of some type encodes it    *)
(* and decodes the cell into a fresh record, or decodes a cell it was      *)
(* given into the record it holds (fresh or already filled).               *)
(***************************************************************************)
VARIABLES typ, val, inp, enc, dec, raw, pc

vars == <<typ, val, inp, enc, dec, raw, pc>>

NoEnc == [Build(<<>>, EmptyCell, <<>>) EXCEPT !.res = "none"]

NoDec == [Walk(<<>>, EmptyCell, <<>>) EXCEPT !.res = "none"]

Init ==
  /\ typ \in Types
  /\ val \in ValuesOf(typ)
  /\ inp \in RawCells
  /\ enc = NoEnc
  /\ dec = NoDec
  /\ raw = NoDec
  /\ pc = "start"

\* cell, err := tlb.ToCell(val)
Encode ==
  /\ pc = "start"
  /\ enc' = ToCell(typ, val, FALSE)
  /\ pc' = "encoded"
  /\ UNCHANGED <<typ, val, inp, dec, raw>>

\* var out T; err := tlb.LoadFromCell(&out, cell.BeginParse())
DecodeBack ==
  /\ pc = "encoded"
  /\ enc.res = "ok"
  /\ dec' = LoadFromCell(typ, <<Zero(typ)>>, BeginParse(EndCell(enc.b)))
  /\ pc' = "decoded"
  /\ UNCHANGED <<typ, val, inp, enc, raw>>

\* err := tlb.LoadFromCell(&val, inp.BeginParse()): the caller's record,
\* fresh or already filled.
DecodeRaw ==
  /\ pc = "start"
  /\ raw' = LoadFromCell(typ, <<val>>, BeginParse(inp))
  /\ pc' = "loaded"
  /\ UNCHANGED <<typ, val, inp, enc, dec>>

Next == Encode \/ DecodeBack \/ DecodeRaw

Spec == Init /\ [][Next]_vars

(***************************************************************************)
(* What the properties speak of.                                           *)
(***************************************************************************)
\* The tokens of a field's tag.
Tokens(f) == Split(TrimSpace(f.tag))

\* A literal of the form #<hex digits> or $<binary digits>, at most 64 bits.
WellFormedLiteral(tok) ==
  /\ MagicSize(tok).ok
  /\ Len(tok) > 1
  /\ MagicSize(tok).sz <= 64
  /\ \A i \in 2..Len(tok) : IsDigitOf(tok[i], MagicSize(tok).base)

\* The bits a well-formed literal denotes.
LiteralBits(tok) == DigitBits(Tail(tok), MagicSize(tok).base)

\* The cursor has nothing left.
Consumed(s) == s.bits = <<>> /\ s.refs = <<>>

\* The type declares the capability, on either receiver.
Declares(recv) == recv # "none"

RECURSIVE InDomain(_, _)
\* The value v of field f lies in the valid domain of the directive toks.
DirectiveDomain(f, v, toks) ==
  IF toks = <<>> THEN FALSE
  ELSE IF toks[1] = TokNum /\ Len(toks) = 2 /\ ParseUint(toks[2]).ok
  THEN LET n == ParseUint(toks[2]).val
       IN  /\ n \in 1..256
           /\ \/ f.kind = "uint" /\ n <= 64 /\ Len(Strip(v)) <= n
              \/ f.kind = "int" /\ n <= 64 /\ SignExtend(Low(v, n), 64) = v
              \/ f.kind = "bigint" /\ v # <<>> /\ Len(v[1].mag) < n
  ELSE IF toks = <<TokBool>> THEN f.kind = "bool"
  ELSE IF toks = <<TokAddr>> THEN f.kind = "addr" /\ v # <<>>
  ELSE IF toks[1] = TokBits /\ Len(toks) = 2 /\ ParseUint(toks[2]).ok
  THEN LET n == ParseUint(toks[2]).val
       IN  /\ f.kind = "bytes"
           /\ Len(v) = n + ((8 - (n % 8)) % 8)
           /\ \A k \in (n + 1)..Len(v) : v[k] = 0
  ELSE IF toks = <<TokRef>> /\ f.kind = "cell" THEN v # <<>>
  ELSE IF toks \in {<<TokRef>>, <<TokDot>>, <<TokEither, TokDot, TokRef>>,
                    <<TokEither, TokRef, TokDot>>}
  THEN /\ f.kind \in {"struct", "ptr"}
       /\ f.elem[1].load = "none" /\ f.elem[1].store = "none"
       /\ IF f.kind = "ptr" THEN v # <<>> /\ InDomain(f.elem[1], v[1])
          ELSE InDomain(f.elem[1], v)
  ELSE IF toks[1] = TokDict /\ Len(toks) = 2 /\ ParseUint(toks[2]).ok
  THEN f.kind = "dict" /\ v # <<>> /\ v[1].keySz = ParseUint(toks[2]).val
  ELSE IF toks[1] = TokDict /\ Len(toks) >= 4 /\ ParseUint(toks[2]).ok
          /\ toks[3] = TokArrow /\ toks[4] = TokArray
          /\ (Len(toks) = 4 \/ (Len(toks) = 5 /\ toks[5] = TokRef))
  THEN f.kind \in {"slice", "ptrslice"}
  ELSE f.kind = "magic" /\ Len(toks) = 1 /\ WellFormedLiteral(toks[1])

FieldDomain(f, v) ==
  IF Tokens(f)[1] = TokMaybe
  THEN (IsPointerKind(f.kind) /\ v = <<>>) \/ DirectiveDomain(f, v, Tail(Tokens(f)))
  ELSE DirectiveDomain(f, v, Tokens(f))

\* Every field of the record lies in the valid domain of its directive.
InDomain(t, rv) == \A i \in 1..Len(t.fields) : FieldDomain(t.fields[i], rv[i])

(***************************************************************************)
(* C1.  Round trip: for every directive kind of the grammar and every      *)
(* record in the directive's valid domain, ToCell succeeds, and            *)
(* LoadFromCell of a fresh record from the cell gives back the record and  *)
(* consumes exactly what ToCell produced.                                  *)
(***************************************************************************)
RoundTrip ==
  InDomain(typ, val) =>
    /\ pc = "encoded" => enc.res = "ok"
    /\ pc = "decoded" => dec.res = "ok" /\ dec.rv = val /\ Consumed(dec.loader)

(***************************************************************************)
(* C2.  Magic: for every literal #<hex> or $<bin> of at most 64 bits,      *)
(* ToCell writes exactly the literal's bits, and LoadFromCell reads that   *)
(* many bits and returns an error, never a panic, exactly when the bits    *)
(* read differ from the literal.                                           *)
(***************************************************************************)
MagicContract ==
  (typ \in MagicTypes /\ WellFormedLiteral(typ.fields[1].tag)) =>
    LET lit == LiteralBits(typ.fields[1].tag) IN
    /\ pc = "encoded" =>
         /\ enc.res # "panic"
         /\ enc.res = "ok" => SubSeq(enc.b.bits, 1, Len(lit)) = lit
    /\ pc = "loaded" =>
         /\ raw.res # "panic"
         /\ Len(inp.bits) >= Len(lit) =>
              ((raw.res = "error" /\ raw.at = 1)
                 <=> SubSeq(inp.bits, 1, Len(lit)) # lit)

(***************************************************************************)
(* C3.  Maybe: for a `maybe` field whose value is absent (a nil pointer),  *)
(* ToCell writes exactly one bit, 0, and nothing else for the field;       *)
(* LoadFromCell of that cell reads exactly that one bit for the field,     *)
(* leaves the field at its zero value and the cursor fully consumed.       *)
(***************************************************************************)
DropFirst(t) == [t EXCEPT !.fields = Tail(@)]

AbsentFirst ==
  /\ Tokens(typ.fields[1])[1] = TokMaybe
  /\ IsPointerKind(typ.fields[1].kind)
  /\ val[1] = <<>>

TransformTypes == {t \in DictTypes : t.fields[1].kind # "dict"}

\* The mapping the cell holds, as the cursor's mapping decoder reads it.
MappingOf(c) == LoadDict(BeginParse(c), 8)

\* The decoded value of one entry: structLoad on the entry's value cell,
\* or on its first child for the `^` form.
Element(t, e) ==
  LET f == t.fields[1]
      r == LoadRef(BeginParse(e.value))
  IN  IF Len(Tokens(f)) = 5
      THEN IF r.ok THEN structLoad(ElemKind(f.kind), f.elem, r.val)
           ELSE Fail(Walk(<<>>, EmptyCell, <<>>), PrimErr)
      ELSE structLoad(ElemKind(f.kind), f.elem, BeginParse(e.value))

DictTransform ==
  (pc = "loaded" /\ typ \in TransformTypes /\ MappingOf(inp).ok) =>
    LET entries == All(MappingOf(inp).val[1]) IN
    (\A j \in 1..Len(entries) : Element(typ, entries[j]).res = "ok") =>
      /\ raw.res = "ok"
      /\ Len(raw.rv[1]) = Len(entries)
      /\ \A j \in 1..Len(entries) : raw.rv[1][j] = Element(typ, entries[j]).rv

\* What the code does: the decoded values are appended to what the field
\* held before the call, so the claimed sequence is the result only for a
\* field that was empty.
DictTransformAppends ==
  (pc = "loaded" /\ typ \in TransformTypes /\ MappingOf(inp).ok) =>
    LET entries == All(MappingOf(inp).val[1]) IN
    (\A j \in 1..Len(entries) : Element(typ, entries[j]).res = "ok") =>
      /\ raw.res = "ok"
      /\ raw.rv[1] = val[1] \o [j \in 1..Len(entries) |->
                                  Element(typ, entries[j]).rv]

(***************************************************************************)
(* C5.  Capability override: a nested record whose type declares a custom  *)
(* decoder is decoded by it and not by the generic walk; a nested record   *)
(* whose type declares a custom encoder is encoded by it and not by the    *)
(* generic walk; a type without the capability gets the generic walk.      *)
(***************************************************************************)
Has(calls, c) == \E k \in 1..Len(calls) : calls[k] = c

CapabilityOverride ==
  typ \in NestedTypes =>
    LET f == typ.fields[1]
        inner == f.elem[1]
        custom == Call("manualLoader", 0, inner.name)
        store == Call("manualStore", 0, inner.name)
        walk == Call("walk", 0, inner.name)
    IN  /\ (pc = "loaded" /\ (Tokens(f) = <<TokRef>> => inp.refs # <<>>)) =>
             IF Declares(inner.load)
             THEN Has(raw.calls, custom) /\ ~Has(raw.calls, walk)
             ELSE Has(raw.calls, walk) /\ ~Has(raw.calls, custom)
        /\ (pc = "encoded" /\ val[1] # <<>>) =>
             IF Declares(inner.store)
             THEN Has(enc.calls, store) /\ ~Has(enc.calls, walk)
             ELSE Has(enc.calls, walk) /\ ~Has(enc.calls, store)

(***************************************************************************)
(* C6.  Bit-width bounds: `## N` is accepted by LoadFromCell and by ToCell *)
(* for every N in 1..256; for N = 0 and for every N > 256 both panic.      *)
(***************************************************************************)
NumWidth(t) == ParseUint(Tokens(t.fields[1])[2]).val

\* The field's kind can hold an N-bit integer.
KindHolds(kind, n) == kind = "bigint" \/ (kind \in {"int", "uint"} /\ n <= 64)

WidthBounds ==
  typ \in NumTypes =>
    LET n == NumWidth(typ)
        k == typ.fields[1].kind
    IN  /\ (n \in 1..256 /\ KindHolds(k, n)) =>
             /\ (pc = "encoded" /\ val[1] # <<>>) => enc.res # "panic"
             /\ pc = "loaded" => raw.res # "panic"
        /\ (n = 0 \/ n > 256) =>
             /\ pc = "encoded" => enc.res = "panic"
             /\ pc = "loaded" => raw.res = "panic"

(***************************************************************************)
(* C7.  Error provenance: every error LoadFromCell returns because a       *)
(* cursor primitive or a nested record failed carries the identifier of    *)
(* the field being processed, and each enclosing nested-record level adds  *)
(* the identifier of its own field.                                        *)
(***************************************************************************)
HasId(err, id) == \E k \in 1..Len(err) : err[k].id = id

ErrorProvenance ==
  (pc = "loaded" /\ raw.res = "error") =>
    /\ HasId(raw.err, typ.fields[raw.at].name)
    /\ (typ \in DeepTypes /\ Has(raw.calls, Call("walk", 0, "MidT"))) =>
         HasId(raw.err, "In")

ReadOf(kind, n) ==
  IF n > 64 \/ kind = "bigint" THEN "LoadBigInt"
  ELSE IF kind = "int" THEN "LoadInt" ELSE "LoadUInt"

WriteOf(kind, n) ==
  IF n > 64 \/ kind = "bigint" THEN "StoreBigInt"
  ELSE IF kind = "int" THEN "StoreInt" ELSE "StoreUInt"

WidthSelectionAnyKind ==
  (typ \in NumTypes /\ NumWidth(typ) <= 256) =>
    LET n == NumWidth(typ)
        k == typ.fields[1].kind
    IN  /\ pc = "loaded" =>
             /\ raw.calls[2] = Call(ReadOf(k, n), n, "")
             /\ n > 64 => raw.res # "panic"
        /\ pc = "encoded" =>
             /\ Len(enc.calls) >= 2
             /\ enc.calls[2] = Call(WriteOf(k, n), n, "")
             /\ (n > 64 /\ (k = "bigint" => val[1] # <<>>)) => enc.res # "panic"

(***************************************************************************)
(* C9, as the code has it: the read is selected by N and the kind as       *)
(* claimed, but the operation proceeds only when the kind can take what    *)
(* was selected: an integer kind for N <= 64, the arbitrary-precision kind *)
(* for any N <= 256.  Otherwise LoadFromCell panics after the read and     *)
(* ToCell panics before any write.                                         *)
(***************************************************************************)
WidthSelection ==
  (typ \in NumTypes /\ NumWidth(typ) <= 256) =>
    LET n == NumWidth(typ)
        k == typ.fields[1].kind
    IN  /\ pc = "loaded" =>
             /\ raw.calls[2] = Call(ReadOf(k, n), n, "")
             /\ raw.res = "panic" <=> (~KindHolds(k, n) /\ Len(inp.bits) >= n)
             /\ raw.res = "ok" <=> (KindHolds(k, n) /\ Len(inp.bits) >= n)
        /\ pc = "encoded" =>
             IF KindHolds(k, n)
             THEN /\ enc.calls[2] = Call(WriteOf(k, n), n, "")
                  /\ val[1] # <<>> => enc.res # "panic"
             ELSE enc.res = "panic" /\ Len(enc.calls) = 1 /\ enc.b = BeginCell

WidthSelectionWitness ==
  /\ pc = "loaded"
  /\ typ \in NumTypes
  /\ typ.fields[1].kind = "uint"
  /\ NumWidth(typ) = 65
  /\ raw.calls[2] = Call("LoadBigInt", 65, "")
  /\ raw.res = "panic"

(***************************************************************************)
(* C10.  Either.  LoadFromCell reads one discriminant bit and executes one *)
(* alternative, A if the bit is clear and B if it is set; ToCell writes    *)
(* one discriminant bit and one alternative, bit 1 and B when B starts     *)
(* with `^`, otherwise bit 0 and A, whatever the value; LoadFromCell on    *)
(* ToCell's output executes the alternative ToCell wrote.                  *)
(***************************************************************************)
\* The number of tokens the directive at the head of toks takes.
DirLen(toks) == IF toks[1] \in {TokNum, TokBits, TokDict} THEN 2 ELSE 1

\* The type with its one field's directive replaced.
Retag(t, toks) == [t EXCEPT !.fields[1].tag = Tag(toks)]

EitherLaw(singleTokens) ==
  (typ \in EitherTypes /\ Tokens(typ.fields[1])[1] = TokEither) =>
    LET toks == Tail(Tokens(typ.fields[1]))
        A == SubSeq(toks, 1, DirLen(toks))
        B == SubSeq(toks, DirLen(toks) + 1, Len(toks))
        second == HasPrefix(B[1], <<"^">>)
        wrote == IF second THEN B ELSE A
    IN  (singleTokens => Len(A) = 1 /\ Len(B) = 1) =>
        /\ pc \in {"encoded", "decoded"} =>
             LET alt == ToCell(Retag(typ, wrote), val, FALSE) IN
             /\ enc.res = alt.res
             /\ enc.calls[2] = Call("StoreBoolBit", 1, "either")
             /\ SubSeq(enc.calls, 3, Len(enc.calls)) = Tail(alt.calls)
             /\ enc.b.bits = <<IF second THEN 1 ELSE 0>> \o alt.b.bits
             /\ enc.b.refs = alt.b.refs
        /\ pc = "decoded" =>
             LET alt == LoadFromCell(Retag(typ, wrote), <<Zero(typ)>>,
                                     Skip(BeginParse(EndCell(enc.b)), 1))
             IN  /\ dec.res = alt.res /\ dec.rv = alt.rv
                 /\ dec.loader = alt.loader
                 /\ dec.calls[2] = Call("LoadBoolBit", 1, "either")
                 /\ SubSeq(dec.calls, 3, Len(dec.calls)) = Tail(alt.calls)
        /\ (pc = "loaded" /\ inp.bits # <<>>) =>
             LET alt == LoadFromCell(Retag(typ, IF inp.bits[1] = 0 THEN A ELSE B),
                                     <<val>>, Skip(BeginParse(inp), 1))
             IN  /\ raw.res = alt.res /\ raw.rv = alt.rv
                 /\ raw.loader = alt.loader
                 /\ raw.calls[2] = Call("LoadBoolBit", 1, "either")
                 /\ SubSeq(raw.calls, 3, Len(raw.calls)) = Tail(alt.calls)

\* C10 as claimed: A and B are any directives of the grammar.
EitherAnyDirectives == EitherLaw(FALSE)

\* C10, as the code has it: the tag is split at its spaces and an
\* alternative is one token of it, so the law holds for the directives
\* written as a single token (`^`, `.`, `bool`, `addr`, a magic literal).
EitherSingleToken == EitherLaw(TRUE)

EitherWitness ==
  /\ pc = "decoded"
  /\ Tokens(typ.fields[1]) = <<TokEither, TokDot, TokRef>>
  /\ typ.fields[1].kind = "struct"
  /\ enc.b.bits = <<1>> /\ Len(enc.b.refs) = 1
  /\ dec.res = "ok" /\ dec.rv = val /\ Consumed(dec.loader)
====
